---- MODULE Spec2Model ----
(***************************************************************************)
(* Label-to-colour resolver of Text2Cal (src/src/index.ts).                *)
(*                                                                         *)
(* The "colors" sheet, the script cache and the script lock are shared by  *)
(* every invocation of resolveOrAssignColorIdByLabel_.  Each access to one *)
(* of them (cache get, sheet read, cache put, cache remove, lock acquire,  *)
(* cell write, lock release) is one step of the invocation that makes it.  *)
(*                                                                         *)
(* Spec runs concurrent invocations; SpecOne runs one invocation on any    *)
(* table and label; SpecPost runs one doPost request beside a second       *)
(* invocation, with store failures and edits by the spreadsheet's owner.   *)
(*                                                                         *)
(* Strings are sequences of one-character strings.  A colorId cell holds a *)
(* positive number, or Blank.                                              *)
(***************************************************************************)
EXTENDS Integers, Sequences, FiniteSets, TLC

\* ------------------------------------------------------------------ bounds
NumInv == 3                     \* number of invocations of the resolver
MaxLen == 3                     \* longest raw label built from Alphabet
FairInv == 2                    \* number of invocations called in the fair executions

Invocations == 1..NumInv

\* --------------------------------------------------------------- constants
Marker == "#"
Space == " "
Alphabet == {Marker, Space, "a", "b"}
Blank == 0                      \* a blank colorId cell
NoHolder == 0                   \* the script lock is free
Null == <<"null">>              \* the label argument null (not a string over Alphabet)

\* ------------------------------------------------------------ pure helpers

\* String.prototype.trim, left part
RECURSIVE TrimLeft(_)
TrimLeft(s) ==
  IF s # <<>> /\ Head(s) = Space THEN TrimLeft(Tail(s)) ELSE s

\* String.prototype.trim, right part
RECURSIVE TrimRight(_)
TrimRight(s) ==
  IF s # <<>> /\ s[Len(s)] = Space THEN TrimRight(SubSeq(s, 1, Len(s) - 1)) ELSE s

\* String.prototype.trim
Trim(s) == TrimRight(TrimLeft(s))

\* s.replace(/^#/, "")
StripMarker(s) ==
  IF s # <<>> /\ Head(s) = Marker THEN Tail(s) ELSE s

\* mutant of normalizeLabel_: the marker is never stripped
normalizeLabel_keepMarker(label) == Trim(label)

\* label.trim().replace(/^#/, "").trim()
normalizeLabel_(label) == Trim(StripMarker(Trim(label)))

\* Array.prototype.indexOf, 0-based, -1 when absent
IndexOf(seq, x) ==
  IF \E i \in 1..Len(seq) : seq[i] = x
  THEN (CHOOSE i \in 1..Len(seq) : seq[i] = x /\ \A j \in 1..(i - 1) : seq[j] # x) - 1
  ELSE -1

\* Array.prototype.find over a sequence: the first element satisfying Test, as
\* a sequence of length 0 (undefined) or 1
Find(seq, Test(_)) ==
  IF \E i \in 1..Len(seq) : Test(seq[i])
  THEN <<seq[CHOOSE i \in 1..Len(seq) : Test(seq[i]) /\ \A j \in 1..(i - 1) : ~Test(seq[j])]>>
  ELSE <<>>

\* rows.sort((a, b) => Number(a.colorId) - Number(b.colorId)): stable insertion
RECURSIVE InsertRow(_, _)
InsertRow(sorted, r) ==
  IF sorted = <<>> THEN <<r>>
  ELSE IF sorted[Len(sorted)].colorId <= r.colorId THEN Append(sorted, r)
  ELSE Append(InsertRow(SubSeq(sorted, 1, Len(sorted) - 1), r), sorted[Len(sorted)])

RECURSIVE SortRowsFrom(_, _)
SortRowsFrom(rows, acc) ==
  IF rows = <<>> THEN acc ELSE SortRowsFrom(Tail(rows), InsertRow(acc, Head(rows)))

SortRows(rows) == SortRowsFrom(rows, <<>>)

\* ------------------------------------------------------------- the sheet
\* The spreadsheet: whether the sheet "colors" exists, and what
\* getDataRange().getValues() returns: row 1 is the header, the others data.
StdHeader == <<"colorId", "label", "background", "foreground">>
AltHeader == <<"note", "label", "foreground", "colorId", "background">>
NoLabelHeader == <<"colorId", "name", "background", "foreground">>

CellOf(col, id, lab) ==
  CASE col = "colorId" -> id
    [] col = "label" -> lab
    [] col = "background" -> "bg"
    [] col = "foreground" -> "fg"
    [] OTHER -> ""

\* a sheet with header hdr and one data row per <<colorId, label>> of tab
MkSheet(hdr, tab) ==
  [exists |-> TRUE,
   values |-> <<hdr>> \o [k \in 1..Len(tab) |->
                 [c \in 1..Len(hdr) |-> CellOf(hdr[c], tab[k][1], tab[k][2])]]]

NoSheet == [exists |-> FALSE, values |-> <<>>]

\* ------------------------------------------------------------- results
Pending == [kind |-> "pending", colorId |-> Blank, err |-> ""]
Undefined == [kind |-> "undefined", colorId |-> Blank, err |-> ""]
Returned(id) == [kind |-> "colorId", colorId |-> id, err |-> ""]
Thrown(e) == [kind |-> "error", colorId |-> Blank, err |-> e]

\* ------------------------------------------------------- loadColorsRows_
\* the ColorsRow of the sheet row at 1-based position k
ColorsRow(values, k, idxId, idxLabel, idxBg, idxFg) ==
  [rowIndex |-> k,
   colorId |-> values[k][idxId + 1],
   label |-> Trim(values[k][idxLabel + 1]),
   background |-> values[k][idxBg + 1],
   foreground |-> values[k][idxFg + 1]]

\* mutant of PushRows: rows with a blank colorId are kept
RECURSIVE PushRowsAll(_, _, _, _, _, _, _)
PushRowsAll(values, k, idxId, idxLabel, idxBg, idxFg, rows) ==
  IF k > Len(values) THEN rows
  ELSE PushRowsAll(values, k + 1, idxId, idxLabel, idxBg, idxFg,
                   Append(rows, ColorsRow(values, k, idxId, idxLabel, idxBg, idxFg)))

\* the loop over the data rows: rows with a blank colorId are skipped
RECURSIVE PushRows(_, _, _, _, _, _, _)
PushRows(values, k, idxId, idxLabel, idxBg, idxFg, rows) ==
  IF k > Len(values) THEN rows
  ELSE PushRows(values, k + 1, idxId, idxLabel, idxBg, idxFg,
                IF values[k][idxId + 1] = Blank THEN rows
                ELSE Append(rows, ColorsRow(values, k, idxId, idxLabel, idxBg, idxFg)))

\* mutant of ReadRows: a missing sheet is read as a table without rows
ReadRowsLenient(sh) ==
  IF ~sh.exists THEN [err |-> "", rows |-> <<>>]
  ELSE IF Len(sh.values) < 2 THEN [err |-> "NoDataRows", rows |-> <<>>]
  ELSE LET header == sh.values[1]
           idxId == IndexOf(header, "colorId")
           idxLabel == IndexOf(header, "label")
           idxBg == IndexOf(header, "background")
           idxFg == IndexOf(header, "foreground")
       IN IF idxId < 0 \/ idxLabel < 0 \/ idxBg < 0 \/ idxFg < 0
          THEN [err |-> "BadHeader", rows |-> <<>>]
          ELSE [err |-> "",
                rows |-> SortRows(PushRows(sh.values, 2, idxId, idxLabel, idxBg, idxFg, <<>>))]

\* the part of loadColorsRows_ after a cache miss, up to the sort: the error
\* thrown, or the sorted rows
ReadRows(sh) ==
  IF ~sh.exists THEN [err |-> "SheetNotFound", rows |-> <<>>]
  ELSE IF Len(sh.values) < 2 THEN [err |-> "NoDataRows", rows |-> <<>>]
  ELSE LET header == sh.values[1]
           idxId == IndexOf(header, "colorId")
           idxLabel == IndexOf(header, "label")
           idxBg == IndexOf(header, "background")
           idxFg == IndexOf(header, "foreground")
       IN IF idxId < 0 \/ idxLabel < 0 \/ idxBg < 0 \/ idxFg < 0
          THEN [err |-> "BadHeader", rows |-> <<>>]
          ELSE [err |-> "",
                rows |-> SortRows(PushRows(sh.values, 2, idxId, idxLabel, idxBg, idxFg, <<>>))]

\* the script cache entry CACHE_COLORS_KEY: absent, or the rows put there
NoEntry == [hit |-> FALSE, rows |-> <<>>]
Entry(rows) == [hit |-> TRUE, rows |-> rows]

\* ------------------------------------------- resolveOrAssignColorIdByLabel_
\* rows.find(r => normalizeLabel_(r.label) === normalized)
FindLabel(rows, normalized) ==
  Find(rows, LAMBDA r : normalizeLabel_(r.label) = normalized)

\* rows.find(r => !r.label)
FindEmpty(rows) ==
  Find(rows, LAMBDA r : r.label = <<>>)

\* sheet.getRange(rowIndex, labelColIdx + 1).setValue(normalized)
SetValue(sh, rowIndex, col, v) ==
  [sh EXCEPT !.values[rowIndex][col] = v]

\* mutant of ReleaseLock: the lock is never given back
ReleaseLockKept(holder, p) == holder

\* mutant of ReleaseLock: the lock is freed whoever holds it
ReleaseLockAnyHolder(holder, p) == NoHolder

\* lock.releaseLock() by invocation p: frees the lock only when p holds it
ReleaseLock(holder, p) == IF holder = p THEN NoHolder ELSE holder

\* `if (!label) return undefined`
NoLabel(label) == label = Null \/ label = <<>>

\* mutant of SkipsResolution: the normalized label is not tested
SkipsResolutionRawOnly(label) == NoLabel(label)

\* lines 207-209: the calls that return undefined before any load
SkipsResolution(label) ==
  NoLabel(label) \/ normalizeLabel_(label) = <<>>

\* --------------------------------------------------------------- inputs
\* every string over Alphabet of length at most n
RECURSIVE Strings(_)
Strings(n) ==
  IF n = 0 THEN {<<>>}
  ELSE Strings(n - 1) \cup {Append(s, c) : s \in {t \in Strings(n - 1) : Len(t) = n - 1}, c \in Alphabet}

\* the arguments of a single call: null and every string up to MaxLen
RawLabels == {Null} \cup Strings(MaxLen)

\* the arguments of concurrent calls: "#a" and "##a"
InputLabels ==
  {<<Marker, "a">>, <<Marker, Marker, "a">>}

\* an older snapshot of rows: the labels of the rows in blanked were still empty
OlderSnapshot(rows, blanked) ==
  [k \in 1..Len(rows) |-> IF k \in blanked THEN [rows[k] EXCEPT !.label = <<>>] ELSE rows[k]]

\* the cache entries a sheet can start with: none, the rows as they are, or
\* an unexpired older snapshot
InitEntries(sh) ==
  LET r == ReadRows(sh)
  IN IF r.err # "" THEN {NoEntry}
     ELSE {NoEntry} \cup
          {Entry(OlderSnapshot(r.rows, b)) :
             b \in SUBSET {k \in 1..Len(r.rows) : r.rows[k].label # <<>>}}

\* the tables of the initial sheets: <<colorId, label>> per data row, in the
\* physical order of the sheet
TwoEmpty == << <<2, <<>>>>, <<1, <<>>>> >>
OneEmpty == << <<1, <<>>>> >>

\* the sheets concurrent invocations start from
InitSheets ==
  {MkSheet(StdHeader, TwoEmpty), MkSheet(AltHeader, OneEmpty)}

\* ---------------------------------------------------------------- state
VARIABLES
  sheet,        \* the spreadsheet
  cache,        \* the script cache entry
  lock,         \* the invocation holding the script lock, or NoHolder
  pc,           \* where each invocation is
  label,        \* the argument of each invocation
  rows,         \* the rows each invocation last loaded
  empty,        \* the empty row each invocation chose, as Find returns it
  labelColIdx,  \* the index of the label column each invocation found in the header
  result,       \* what each invocation is about to return or throw
  sheet0,       \* history: the sheet in the initial state
  atCall,       \* history: what held when the invocation was called
  ops,          \* history: the cache removals, lock attempts and cell writes of each invocation
  post          \* the doPost request that calls invocation 1, if there is one

vars == <<sheet, cache, lock, pc, label, rows, empty, labelColIdx, result,
          sheet0, atCall, ops, labelColIdx, post>>

\* no header was read: the local labelColIdx has no value
NoColumn == -1

\* no doPost request is part of the execution
NoPost == [pc |-> "none"]

NoOps == [remove |-> 0, tryLock |-> 0, write |-> 0]

Did(p, kind) == [ops EXCEPT ![p][kind] = @ + 1]

\* ------------------------------------------------- what a call starts from
\* the rows of sheet sh, or none when the sheet cannot be loaded
StoreRows(sh) == ReadRows(sh).rows

\* the colorIds of the rows of rs bound to the normalized label n
BoundTo(rs, n) ==
  {rs[k].colorId : k \in {j \in 1..Len(rs) : normalizeLabel_(rs[j].label) = n}}

\* every row of rs has a label
Full(rs) == rs # <<>> /\ \A k \in 1..Len(rs) : rs[k].label # <<>>

NotCalled == [prior |-> {}, full |-> FALSE, staleFor |-> {}]

\* recorded when an invocation is called with raw:
\*   prior    the colorIds that finished invocations returned for a label
\*            with the same normalized form
\*   full     every row of the sheet has a label and none matches raw
\*   staleFor the colorIds the sheet binds to raw in rows that the cache
\*            entry still shows as empty
AtCall(raw) ==
  LET n == normalizeLabel_(raw)
      rs == StoreRows(sheet)
  IN IF SkipsResolution(raw) THEN NotCalled
     ELSE [prior |-> {result[q].colorId : q \in {i \in Invocations :
                        /\ pc[i] = "done"
                        /\ result[i].kind = "colorId"
                        /\ normalizeLabel_(label[i]) = n}},
           full |-> Full(rs) /\ BoundTo(rs, n) = {},
           staleFor |-> IF ~cache.hit THEN {}
                        ELSE {id \in BoundTo(rs, n) :
                                \E k \in 1..Len(cache.rows) :
                                   /\ cache.rows[k].colorId = id
                                   /\ cache.rows[k].label = <<>>}]

Init ==
  /\ sheet \in InitSheets
  /\ cache \in InitEntries(sheet)
  /\ lock = NoHolder
  /\ pc = [p \in Invocations |-> "idle"]
  /\ label = [p \in Invocations |-> Null]
  /\ rows = [p \in Invocations |-> <<>>]
  /\ empty = [p \in Invocations |-> <<>>]
  /\ labelColIdx = [p \in Invocations |-> NoColumn]
  /\ result = [p \in Invocations |-> Pending]
  /\ sheet0 = sheet
  /\ atCall = [p \in Invocations |-> NotCalled]
  /\ ops = [p \in Invocations |-> NoOps]
  /\ post = NoPost

\* --------------------------------------------------------------- actions
\* mutant of FastPath: a match in the first rows is not returned before the lock
FastPathLocked(p, rs, raw) ==
  /\ pc' = [pc EXCEPT ![p] = "tryLock"]
  /\ rows' = [rows EXCEPT ![p] = <<>>]
  /\ UNCHANGED result

\* lines 213-214 on the rows rs just loaded for the label raw: return the
\* match (the locals are gone), or go on to the lock
FastPath(p, rs, raw) ==
  LET found == FindLabel(rs, normalizeLabel_(raw))
  IN /\ IF found # <<>>
        THEN /\ pc' = [pc EXCEPT ![p] = "done"]
             /\ rows' = [rows EXCEPT ![p] = <<>>]
             /\ result' = [result EXCEPT ![p] = Returned(found[1].colorId)]
        ELSE /\ pc' = [pc EXCEPT ![p] = "tryLock"]
             /\ rows' = [rows EXCEPT ![p] = <<>>]
             /\ UNCHANGED result

\* resolveOrAssignColorIdByLabel_(raw) is called: the label checks of lines
\* 207-209, which touch nothing shared, and the cache.get of line 212
\* (loadColorsRows_ lines 166-168), the call's first access to shared state.
Enter(p, raw) ==
  /\ pc[p] = "idle"
  /\ label' = [label EXCEPT ![p] = raw]
  /\ atCall' = [atCall EXCEPT ![p] = AtCall(raw)]
  /\ UNCHANGED sheet0
  /\ IF SkipsResolution(raw)
     THEN /\ pc' = [pc EXCEPT ![p] = "done"]
          /\ result' = [result EXCEPT ![p] = Undefined]
          /\ UNCHANGED rows
     ELSE IF cache.hit
          THEN FastPath(p, cache.rows, raw)
          ELSE /\ pc' = [pc EXCEPT ![p] = "read1"]
               /\ UNCHANGED <<rows, result>>
  /\ UNCHANGED <<sheet, cache, lock, empty, labelColIdx, ops>>

\* a call that is not made by a doPost request of the model; the invocations
\* of such calls are numbered in the order in which they are called
Call(p, raw) ==
  /\ \A q \in Invocations : q < p => pc[q] # "idle"
  /\ Enter(p, raw)
  /\ UNCHANGED post

\* the call of another request, made at any moment of the doPost request
OtherCall(p, raw) == Enter(p, raw) /\ UNCHANGED post

\* loadColorsRows_ lines 170-197: the sheet is read and parsed
SheetRead1(p) ==
  /\ pc[p] = "read1"
  /\ UNCHANGED ops
  /\ LET r == ReadRows(sheet)
     IN IF r.err # ""
        THEN /\ pc' = [pc EXCEPT ![p] = "done"]
             /\ result' = [result EXCEPT ![p] = Thrown(r.err)]
             /\ UNCHANGED rows
        ELSE /\ pc' = [pc EXCEPT ![p] = "put1"]
             /\ rows' = [rows EXCEPT ![p] = r.rows]
             /\ UNCHANGED result
  /\ UNCHANGED <<sheet, cache, lock, label, empty, sheet0, atCall>>
  /\ UNCHANGED <<labelColIdx, post>>

\* loadColorsRows_ line 198: cache.put, then lines 213-214
CachePut1(p) ==
  /\ pc[p] = "put1"
  /\ UNCHANGED ops
  /\ cache' = Entry(rows[p])
  /\ FastPath(p, rows[p], label[p])
  /\ UNCHANGED <<sheet, lock, label, empty, sheet0, atCall>>
  /\ UNCHANGED <<labelColIdx, post>>

\* mutant of TryLockAcquired: the lock is granted although it is held
TryLockAcquiredHeld(p) ==
  /\ pc[p] = "tryLock"
  /\ lock' = p
  /\ ops' = Did(p, "tryLock")
  /\ pc' = [pc EXCEPT ![p] = "invalidate1"]
  /\ UNCHANGED <<sheet, cache, label, rows, empty, result, sheet0, atCall>>
  /\ UNCHANGED <<labelColIdx, post>>

\* line 221: tryLock succeeds
TryLockAcquired(p) ==
  /\ pc[p] = "tryLock"
  /\ lock = NoHolder
  /\ lock' = p
  /\ ops' = Did(p, "tryLock")
  /\ pc' = [pc EXCEPT ![p] = "invalidate1"]
  /\ UNCHANGED <<sheet, cache, label, rows, empty, result, sheet0, atCall>>
  /\ UNCHANGED <<labelColIdx, post>>

\* mutant of TryLockTimeout: after a timeout the lock is asked for once more
TryLockTimeoutRetry(p) ==
  /\ pc[p] = "tryLock"
  /\ lock # NoHolder
  /\ ops' = Did(p, "tryLock")
  /\ IF ops[p].tryLock = 0
     THEN UNCHANGED <<pc, result>>
     ELSE /\ pc' = [pc EXCEPT ![p] = "release"]
          /\ result' = [result EXCEPT ![p] = Thrown("LockTimeout")]
  /\ UNCHANGED <<sheet, cache, lock, label, rows, empty, sheet0, atCall>>
  /\ UNCHANGED <<labelColIdx, post>>

\* lines 221-223: the lock stayed held for the whole timeout; the error
\* leaves through the finally block
TryLockTimeout(p) ==
  /\ pc[p] = "tryLock"
  /\ lock # NoHolder
  /\ ops' = Did(p, "tryLock")
  /\ pc' = [pc EXCEPT ![p] = "release"]
  /\ result' = [result EXCEPT ![p] = Thrown("LockTimeout")]
  /\ UNCHANGED <<sheet, cache, lock, label, rows, empty, sheet0, atCall>>
  /\ UNCHANGED <<labelColIdx, post>>

\* line 226: invalidateCache()
Invalidate1(p) ==
  /\ pc[p] = "invalidate1"
  /\ cache' = NoEntry
  /\ ops' = Did(p, "remove")
  /\ pc' = [pc EXCEPT ![p] = "get2"]
  /\ UNCHANGED <<sheet, lock, label, rows, empty, result, sheet0, atCall>>
  /\ UNCHANGED <<labelColIdx, post>>

\* lines 230-235 on the rows rs loaded under the lock
SlowPath(p, rs) ==
  LET existingLabel == FindLabel(rs, normalizeLabel_(label[p]))
      e == FindEmpty(rs)
  IN /\ rows' = [rows EXCEPT ![p] = <<>>]
     /\ IF existingLabel # <<>>
        THEN /\ pc' = [pc EXCEPT ![p] = "release"]
             /\ result' = [result EXCEPT ![p] = Returned(existingLabel[1].colorId)]
             /\ UNCHANGED empty
        ELSE IF e = <<>>
        THEN /\ pc' = [pc EXCEPT ![p] = "release"]
             /\ result' = [result EXCEPT ![p] = Thrown("NoCapacity")]
             /\ UNCHANGED empty
        ELSE /\ pc' = [pc EXCEPT ![p] = "header"]
             /\ empty' = [empty EXCEPT ![p] = e]
             /\ UNCHANGED result

\* line 227, loadColorsRows_ lines 166-168: cache.get under the lock
CacheGet2(p) ==
  /\ pc[p] = "get2"
  /\ UNCHANGED ops
  /\ IF cache.hit
     THEN SlowPath(p, cache.rows)
     ELSE /\ pc' = [pc EXCEPT ![p] = "read2"]
          /\ UNCHANGED <<rows, empty, result>>
  /\ UNCHANGED <<sheet, cache, lock, label, sheet0, atCall>>
  /\ UNCHANGED <<labelColIdx, post>>

\* loadColorsRows_ lines 170-197 under the lock
SheetRead2(p) ==
  /\ pc[p] = "read2"
  /\ UNCHANGED ops
  /\ LET r == ReadRows(sheet)
     IN IF r.err # ""
        THEN /\ pc' = [pc EXCEPT ![p] = "release"]
             /\ result' = [result EXCEPT ![p] = Thrown(r.err)]
             /\ UNCHANGED rows
        ELSE /\ pc' = [pc EXCEPT ![p] = "put2"]
             /\ rows' = [rows EXCEPT ![p] = r.rows]
             /\ UNCHANGED result
  /\ UNCHANGED <<sheet, cache, lock, label, empty, sheet0, atCall>>
  /\ UNCHANGED <<labelColIdx, post>>

\* loadColorsRows_ line 198 under the lock, then lines 230-235
CachePut2(p) ==
  /\ pc[p] = "put2"
  /\ UNCHANGED ops
  /\ cache' = Entry(rows[p])
  /\ SlowPath(p, rows[p])
  /\ UNCHANGED <<sheet, lock, label, sheet0, atCall>>
  /\ UNCHANGED <<labelColIdx, post>>

\* lines 238-241: colorsSheet_(), the header row is read and its label
\* column is looked up
HeaderRead(p) ==
  /\ pc[p] = "header"
  /\ IF ~sheet.exists
     THEN /\ pc' = [pc EXCEPT ![p] = "release"]
          /\ result' = [result EXCEPT ![p] = Thrown("SheetNotFound")]
          /\ UNCHANGED labelColIdx
     ELSE LET idx == IndexOf(sheet.values[1], "label")
          IN IF idx < 0
             THEN /\ pc' = [pc EXCEPT ![p] = "release"]
                  /\ result' = [result EXCEPT ![p] = Thrown("NoLabelColumn")]
                  /\ UNCHANGED labelColIdx
             ELSE /\ pc' = [pc EXCEPT ![p] = "setValue"]
                  /\ labelColIdx' = [labelColIdx EXCEPT ![p] = idx]
                  /\ UNCHANGED result
  /\ UNCHANGED <<sheet, cache, lock, label, rows, empty, sheet0, atCall, ops, post>>

\* line 243: the cell of the chosen row in the column found in the header is
\* set, whatever the header is by now; on a sheet that was deleted since the
\* header was read the call throws
WriteLabel(p) ==
  /\ pc[p] = "setValue"
  /\ IF ~sheet.exists
     THEN /\ pc' = [pc EXCEPT ![p] = "release"]
          /\ result' = [result EXCEPT ![p] = Thrown("StoreUnavailable")]
          /\ UNCHANGED <<sheet, ops>>
     ELSE /\ sheet' = SetValue(sheet, empty[p][1].rowIndex, labelColIdx[p] + 1,
                               normalizeLabel_(label[p]))
          /\ ops' = Did(p, "write")
          /\ pc' = [pc EXCEPT ![p] = "invalidate2"]
          /\ UNCHANGED result
  /\ UNCHANGED <<cache, lock, label, rows, empty, sheet0, atCall>>
  /\ UNCHANGED <<labelColIdx, post>>

\* lines 244-246: invalidateCache(), return empty.colorId
Invalidate2(p) ==
  /\ pc[p] = "invalidate2"
  /\ cache' = NoEntry
  /\ ops' = Did(p, "remove")
  /\ pc' = [pc EXCEPT ![p] = "release"]
  /\ result' = [result EXCEPT ![p] = Returned(empty[p][1].colorId)]
  /\ UNCHANGED <<sheet, lock, label, rows, empty, sheet0, atCall>>
  /\ UNCHANGED <<labelColIdx, post>>

\* mutant of Release: releaseLock is reached only when nothing was thrown
ReleaseOnReturn(p) ==
  /\ pc[p] = "release"
  /\ lock' = IF result[p].kind = "error" THEN lock ELSE ReleaseLock(lock, p)
  /\ UNCHANGED ops
  /\ pc' = [pc EXCEPT ![p] = "done"]
  /\ rows' = [rows EXCEPT ![p] = <<>>]
  /\ empty' = [empty EXCEPT ![p] = <<>>]
  /\ UNCHANGED <<sheet, cache, label, result, sheet0, atCall>>
  /\ labelColIdx' = [labelColIdx EXCEPT ![p] = NoColumn]
  /\ UNCHANGED post

\* lines 247-249: the finally block; the invocation returns or throws and its
\* locals are gone
Release(p) ==
  /\ pc[p] = "release"
  /\ lock' = ReleaseLock(lock, p)
  /\ UNCHANGED ops
  /\ pc' = [pc EXCEPT ![p] = "done"]
  /\ rows' = [rows EXCEPT ![p] = <<>>]
  /\ empty' = [empty EXCEPT ![p] = <<>>]
  /\ UNCHANGED <<sheet, cache, label, result, sheet0, atCall>>
  /\ labelColIdx' = [labelColIdx EXCEPT ![p] = NoColumn]
  /\ UNCHANGED post

\* CACHE_TTL_SECONDS have passed since the put: the entry expires
CacheExpire ==
  /\ cache.hit
  /\ cache' = NoEntry
  /\ UNCHANGED <<sheet, lock, pc, label, rows, empty, result,
                 sheet0, atCall, ops, labelColIdx, post>>

Next ==
  \/ \E p \in Invocations, raw \in InputLabels : Call(p, raw)
  \/ \E p \in Invocations : SheetRead1(p)
  \/ \E p \in Invocations : CachePut1(p)
  \/ \E p \in Invocations : TryLockAcquired(p)
  \/ \E p \in Invocations : TryLockTimeout(p)
  \/ \E p \in Invocations : Invalidate1(p)
  \/ \E p \in Invocations : CacheGet2(p)
  \/ \E p \in Invocations : SheetRead2(p)
  \/ \E p \in Invocations : CachePut2(p)
  \/ \E p \in Invocations : HeaderRead(p)
  \/ \E p \in Invocations : WriteLabel(p)
  \/ \E p \in Invocations : Invalidate2(p)
  \/ \E p \in Invocations : Release(p)
  \/ CacheExpire

Spec == Init /\ [][Next]_vars

\* ------------------------------------------------------------ fairness
\* a step of invocation p once it is called: each of them is an operation of
\* the cache, the sheet or the lock service that completes, and tryLock
\* returns at the latest when its timeout has passed
Step(p) ==
  \/ SheetRead1(p)
  \/ CachePut1(p)
  \/ TryLockAcquired(p)
  \/ TryLockTimeout(p)
  \/ Invalidate1(p)
  \/ CacheGet2(p)
  \/ SheetRead2(p)
  \/ CachePut2(p)
  \/ HeaderRead(p)
  \/ WriteLabel(p)
  \/ Invalidate2(p)
  \/ Release(p)

\* a called invocation keeps running: Apps Script runs every execution to its
\* end; calls and the expiry of the cache entry need not happen
Fairness == \A p \in Invocations : WF_vars(Step(p))

\* the invocations that are called in the fair executions
FairInvocations == 1..FairInv

NextFair ==
  \/ \E p \in FairInvocations, raw \in InputLabels : Call(p, raw)
  \/ \E p \in FairInvocations : Step(p)
  \/ CacheExpire

SpecFair == Init /\ [][NextFair]_vars /\ Fairness

\* ------------------------------------------- one call, any table and label
\* the tables a single call is made on
OneTables ==
  {TwoEmpty, OneEmpty,
   << <<7, <<>>>>, <<3, <<>>>>, <<5, <<>>>>, <<1, <<"b">>>> >>,
   << <<1, <<"a">>>>, <<Blank, <<>>>> >>,
   << <<1, <<"a">>>>, <<2, <<"b">>>> >>,
   << <<2, <<Marker, "a">>>>, <<1, <<Space>>>> >>,
   << <<10, <<>>>>, <<Blank, <<"b">>>>, <<9, <<Space, "a">>>> >>}

NoIdHeader == <<"id", "label", "background", "foreground">>
NoBgHeader == <<"foreground", "colorId", "label">>
NoFgHeader == <<"colorId", "label", "background", "fg">>

\* sheets that cannot be loaded
BrokenSheets ==
  {NoSheet, MkSheet(StdHeader, <<>>), MkSheet(NoLabelHeader, OneEmpty),
   MkSheet(NoIdHeader, OneEmpty), MkSheet(NoBgHeader, OneEmpty),
   MkSheet(NoFgHeader, TwoEmpty)}

OneSheets ==
  {MkSheet(h, t) : h \in {StdHeader, AltHeader}, t \in OneTables} \cup BrokenSheets

\* a broken sheet may still have the entry that was put before it broke
OneEntries(sh) ==
  IF sh \in BrokenSheets
  THEN {NoEntry, Entry(ReadRows(MkSheet(StdHeader, TwoEmpty)).rows)}
  ELSE InitEntries(sh)

InitOne ==
  /\ sheet \in OneSheets
  /\ cache \in OneEntries(sheet)
  /\ lock = NoHolder
  /\ pc = [p \in Invocations |-> "idle"]
  /\ label = [p \in Invocations |-> Null]
  /\ rows = [p \in Invocations |-> <<>>]
  /\ empty = [p \in Invocations |-> <<>>]
  /\ labelColIdx = [p \in Invocations |-> NoColumn]
  /\ result = [p \in Invocations |-> Pending]
  /\ sheet0 = sheet
  /\ atCall = [p \in Invocations |-> NotCalled]
  /\ ops = [p \in Invocations |-> NoOps]
  /\ post = NoPost

\* the steps of one invocation that runs alone: the lock is free when it asks
NextOne ==
  \/ \E raw \in RawLabels : Call(1, raw)
  \/ SheetRead1(1)
  \/ CachePut1(1)
  \/ TryLockAcquired(1)
  \/ Invalidate1(1)
  \/ CacheGet2(1)
  \/ SheetRead2(1)
  \/ CachePut2(1)
  \/ HeaderRead(1)
  \/ WriteLabel(1)
  \/ Invalidate2(1)
  \/ Release(1)
  \/ CacheExpire

SpecOne == InitOne /\ [][NextOne]_vars

\* ------------------------------------------------------------------ doPost
\* One request handled by doPost (lines 59-101).  Its call of the resolver is
\* invocation 1; invocation 2 is the call of another request that runs beside
\* it.  The spreadsheet service may fail, and the owner of the spreadsheet may
\* edit the sheet while the requests run.

\* the request bodies: whether parseRequest_ accepts the body, the secret it
\* carries, and the dryRun flag
Requests ==
  [valid : BOOLEAN, secret : {"s", "x"}, dryRun : BOOLEAN]

\* the script property SHARED_SECRET: set, or missing
SecretProps == {"s", ""}

\* the label of the event parseWithGemini_ returns: null or a string
ParsedLabels ==
  {Null, <<Marker, "a">>, <<"b">>, <<Space>>}

\* parseWithGemini_ throws: API error, empty or non-JSON output, or an event
\* that validateParsed_ rejects
ParseError == <<"throws">>

NoParsed == <<"none">>
NotPassed == [kind |-> "notPassed", colorId |-> Blank, err |-> ""]

NoResponse == [ok |-> FALSE, error |-> "", resolved |-> NotPassed, created |-> FALSE]

\* The responses are the bodies passed to jsonResponse_ (lines 121-129),
\* which returns the body as JSON text and does not use its status argument.

\* line 99: jsonResponse_({ ok: false, error }, 500)
Failure(e) == [ok |-> FALSE, error |-> e, resolved |-> NotPassed, created |-> FALSE]

\* line 65: jsonResponse_({ ok: false, error: "Unauthorized" }, 401)
Unauthorized == [ok |-> FALSE, error |-> "Unauthorized", resolved |-> NotPassed, created |-> FALSE]

\* lines 76-81 and 87-97: jsonResponse_({ ok: true, ..., resolved: { colorId } })
Success(colorId, created) ==
  [ok |-> TRUE, error |-> "", resolved |-> colorId, created |-> created]

\* the request as doPost receives it
Received(req, expected) ==
  [pc |-> "start", req |-> req, expected |-> expected, parsed |-> NoParsed,
   log |-> <<>>, colorId |-> NotPassed, colorIdArg |-> NotPassed, response |-> NoResponse]

\* doPost returns jsonResponse_(r, status): the body r
Respond(r) ==
  post' = [post EXCEPT !.pc = "responded", !.response = r]

\* mutant of PostRequest: the secret of the body is not compared
PostRequestAnySecret ==
  /\ post.pc = "start"
  /\ IF ~post.req.valid THEN Respond(Failure("BadRequest"))
     ELSE IF post.expected = "" THEN Respond(Failure("MissingProperty"))
     ELSE post' = [post EXCEPT !.pc = "parse"]
  /\ UNCHANGED <<sheet, cache, lock, pc, label, rows, empty, result, sheet0, atCall, ops, labelColIdx>>

\* lines 61-66: parseRequest_, getProp_("SHARED_SECRET") and the secret check
PostRequest ==
  /\ post.pc = "start"
  /\ IF ~post.req.valid THEN Respond(Failure("BadRequest"))
     ELSE IF post.expected = "" THEN Respond(Failure("MissingProperty"))
     ELSE IF post.req.secret # post.expected THEN Respond(Unauthorized)
     ELSE post' = [post EXCEPT !.pc = "parse"]
  /\ UNCHANGED <<sheet, cache, lock, pc, label, rows, empty, result, sheet0, atCall, ops, labelColIdx>>

\* lines 68-71: parseWithGemini_ returns a validated event, or throws
PostParse ==
  /\ post.pc = "parse"
  /\ \E out \in {ParseError} \cup ParsedLabels :
        IF out = ParseError
        THEN post' = [post EXCEPT !.pc = "responded", !.log = Append(@, "parse"),
                                  !.response = Failure("ParserError")]
        ELSE post' = [post EXCEPT !.pc = "resolve", !.log = Append(@, "parse"),
                                  !.parsed = out]
  /\ UNCHANGED <<sheet, cache, lock, pc, label, rows, empty, result, sheet0, atCall, ops, labelColIdx>>

\* mutant of PostResolve: a dry run does not call the resolver
PostResolveNotDry ==
  /\ post.pc = "resolve"
  /\ IF post.req.dryRun
     THEN /\ post' = [post EXCEPT !.pc = "responded", !.colorId = Undefined,
                                  !.response = Success(Undefined, FALSE)]
          /\ UNCHANGED <<sheet, cache, lock, pc, label, rows, empty, result, sheet0, atCall, ops, labelColIdx>>
     ELSE /\ Enter(1, post.parsed)
          /\ post' = [post EXCEPT !.pc = "resolving", !.log = Append(@, "resolve")]

\* line 73: resolveOrAssignColorIdByLabel_(parsed.label) is called
PostResolve ==
  /\ post.pc = "resolve"
  /\ Enter(1, post.parsed)
  /\ post' = [post EXCEPT !.pc = "resolving", !.log = Append(@, "resolve")]

\* mutant of PostResolved: a failed resolution goes on without a colour
PostResolvedFallback ==
  /\ post.pc = "resolving"
  /\ pc[1] = "done"
  /\ IF result[1].kind = "error"
     THEN post' = [post EXCEPT !.pc = "insert", !.colorId = Undefined]
     ELSE IF post.req.dryRun
     THEN post' = [post EXCEPT !.pc = "responded", !.colorId = result[1],
                               !.response = Success(result[1], FALSE)]
     ELSE post' = [post EXCEPT !.pc = "insert", !.colorId = result[1]]
  /\ UNCHANGED <<sheet, cache, lock, pc, label, rows, empty, result, sheet0, atCall, ops, labelColIdx>>

\* lines 73-82 and 98-100: the resolver has thrown, which the catch block
\* turns into the failure response, or it has returned colorId; a dry run
\* responds at once
PostResolved ==
  /\ post.pc = "resolving"
  /\ pc[1] = "done"
  /\ IF result[1].kind = "error"
     THEN Respond(Failure(result[1].err))
     ELSE IF post.req.dryRun
     THEN post' = [post EXCEPT !.pc = "responded", !.colorId = result[1],
                               !.response = Success(result[1], FALSE)]
     ELSE post' = [post EXCEPT !.pc = "insert", !.colorId = result[1]]
  /\ UNCHANGED <<sheet, cache, lock, pc, label, rows, empty, result, sheet0, atCall, ops, labelColIdx>>

\* lines 84-97: createCalendarEvent_(calendarId, parsed, colorId) inserts the
\* event, or Calendar.Events.insert throws
PostInsert ==
  /\ post.pc = "insert"
  /\ \E inserted \in BOOLEAN :
        post' = [post EXCEPT !.pc = "responded", !.log = Append(@, "insert"),
                             !.colorIdArg = post.colorId,
                             !.response = IF inserted THEN Success(post.colorId, TRUE)
                                          ELSE Failure("CalendarError")]
  /\ UNCHANGED <<sheet, cache, lock, pc, label, rows, empty, result, sheet0, atCall, ops, labelColIdx>>

\* the spreadsheet service throws in getValues (line 171), in the header read
\* (line 239) or in setValue (line 243): no cell is changed; under the lock
\* the error leaves through the finally block
StoreFails(p) ==
  /\ pc[p] \in {"read1", "read2", "header", "setValue"}
  /\ pc' = [pc EXCEPT ![p] = IF pc[p] = "read1" THEN "done" ELSE "release"]
  /\ result' = [result EXCEPT ![p] = Thrown("StoreUnavailable")]
  /\ UNCHANGED <<sheet, cache, lock, label, rows, empty, sheet0, atCall, ops, labelColIdx, post>>

\* the header of sheet sh with the label column renamed
RenameLabel(sh) ==
  [sh EXCEPT !.values[1] = [c \in 1..Len(@) |-> IF @[c] = "label" THEN "name" ELSE @[c]]]

\* the owner of the spreadsheet renames the label column or deletes the sheet
\* (what lines 149 and 241 guard against)
OwnerEdit ==
  /\ sheet.exists
  /\ \/ /\ Len(sheet.values) >= 1
        /\ IndexOf(sheet.values[1], "label") >= 0
        /\ sheet' = RenameLabel(sheet)
     \/ sheet' = NoSheet
  /\ UNCHANGED <<cache, lock, pc, label, rows, empty, result, sheet0, atCall, ops, labelColIdx, post>>

\* the sheets a request starts from
PostSheets ==
  {MkSheet(StdHeader, TwoEmpty), MkSheet(AltHeader, OneEmpty),
   MkSheet(StdHeader, << <<1, <<"a">>>>, <<2, <<"b">>>> >>),
   NoSheet, MkSheet(NoIdHeader, OneEmpty)}

InitPost ==
  /\ sheet \in PostSheets
  /\ cache \in OneEntries(sheet)
  /\ lock = NoHolder
  /\ pc = [p \in Invocations |-> "idle"]
  /\ label = [p \in Invocations |-> Null]
  /\ rows = [p \in Invocations |-> <<>>]
  /\ empty = [p \in Invocations |-> <<>>]
  /\ labelColIdx = [p \in Invocations |-> NoColumn]
  /\ result = [p \in Invocations |-> Pending]
  /\ sheet0 = sheet
  /\ atCall = [p \in Invocations |-> NotCalled]
  /\ ops = [p \in Invocations |-> NoOps]
  /\ post \in {Received(req, expected) : req \in Requests, expected \in SecretProps}

\* the invocations of the two requests
PostInvocations == {1, 2}

NextPost ==
  \/ PostRequest
  \/ PostParse
  \/ PostResolve
  \/ PostResolved
  \/ PostInsert
  \/ \E raw \in InputLabels : OtherCall(2, raw)
  \/ \E p \in PostInvocations : SheetRead1(p)
  \/ \E p \in PostInvocations : CachePut1(p)
  \/ \E p \in PostInvocations : TryLockAcquired(p)
  \/ \E p \in PostInvocations : TryLockTimeout(p)
  \/ \E p \in PostInvocations : Invalidate1(p)
  \/ \E p \in PostInvocations : CacheGet2(p)
  \/ \E p \in PostInvocations : SheetRead2(p)
  \/ \E p \in PostInvocations : CachePut2(p)
  \/ \E p \in PostInvocations : HeaderRead(p)
  \/ \E p \in PostInvocations : WriteLabel(p)
  \/ \E p \in PostInvocations : Invalidate2(p)
  \/ \E p \in PostInvocations : Release(p)
  \/ \E p \in PostInvocations : StoreFails(p)
  \/ CacheExpire
  \/ OwnerEdit

SpecPost == InitPost /\ [][NextPost]_vars

\* ------------------------------------------------- the compiled resolver
\* resolveOrAssignColorIdByLabel_ of dist/index.js (lines 116-132; the same
\* function is in unnamed/part_000, lines 206-228): loadColorsRows_,
\* normalizeLabel_ and invalidateCache are those of the source, but no lock
\* is taken and the rows of the first load serve for the empty-slot search.

\* dist lines 121-124 on the rows rs just loaded for the label raw
DistScan(p, rs, raw) ==
  LET found == FindLabel(rs, normalizeLabel_(raw))
      e == FindEmpty(rs)
  IN /\ rows' = [rows EXCEPT ![p] = <<>>]
     /\ IF found # <<>>
        THEN /\ pc' = [pc EXCEPT ![p] = "done"]
             /\ result' = [result EXCEPT ![p] = Returned(found[1].colorId)]
             /\ UNCHANGED empty
        ELSE IF e = <<>>
        THEN /\ pc' = [pc EXCEPT ![p] = "done"]
             /\ result' = [result EXCEPT ![p] = Thrown("NoCapacity")]
             /\ UNCHANGED empty
        ELSE /\ pc' = [pc EXCEPT ![p] = "header"]
             /\ empty' = [empty EXCEPT ![p] = e]
             /\ UNCHANGED result

\* dist lines 117-120 and the cache.get of loadColorsRows_ (dist lines 82-84)
DistCall(p, raw) ==
  /\ pc[p] = "idle"
  /\ \A q \in Invocations : q < p => pc[q] # "idle"
  /\ label' = [label EXCEPT ![p] = raw]
  /\ atCall' = [atCall EXCEPT ![p] = AtCall(raw)]
  /\ IF SkipsResolution(raw)
     THEN /\ pc' = [pc EXCEPT ![p] = "done"]
          /\ result' = [result EXCEPT ![p] = Undefined]
          /\ UNCHANGED <<rows, empty>>
     ELSE IF cache.hit
          THEN DistScan(p, cache.rows, raw)
          ELSE /\ pc' = [pc EXCEPT ![p] = "read1"]
               /\ UNCHANGED <<rows, empty, result>>
  /\ UNCHANGED <<sheet, cache, lock, sheet0, ops, labelColIdx, post>>

\* dist line 110: cache.put, then dist lines 121-124
DistCachePut(p) ==
  /\ pc[p] = "put1"
  /\ cache' = Entry(rows[p])
  /\ DistScan(p, rows[p], label[p])
  /\ UNCHANGED <<sheet, lock, label, sheet0, atCall, ops, labelColIdx, post>>

\* dist lines 125-128: colorsSheet_(), the header row is read and its label
\* column is looked up
DistHeaderRead(p) ==
  /\ pc[p] = "header"
  /\ IF ~sheet.exists
     THEN /\ pc' = [pc EXCEPT ![p] = "done"]
          /\ result' = [result EXCEPT ![p] = Thrown("SheetNotFound")]
          /\ UNCHANGED labelColIdx
     ELSE LET idx == IndexOf(sheet.values[1], "label")
          IN IF idx < 0
             THEN /\ pc' = [pc EXCEPT ![p] = "done"]
                  /\ result' = [result EXCEPT ![p] = Thrown("NoLabelColumn")]
                  /\ UNCHANGED labelColIdx
             ELSE /\ pc' = [pc EXCEPT ![p] = "setValue"]
                  /\ labelColIdx' = [labelColIdx EXCEPT ![p] = idx]
                  /\ UNCHANGED result
  /\ UNCHANGED <<sheet, cache, lock, label, rows, empty, sheet0, atCall, ops, post>>

\* dist line 129: the cell of the chosen row is set
DistWriteLabel(p) ==
  /\ pc[p] = "setValue"
  /\ IF ~sheet.exists
     THEN /\ pc' = [pc EXCEPT ![p] = "done"]
          /\ result' = [result EXCEPT ![p] = Thrown("StoreUnavailable")]
          /\ UNCHANGED <<sheet, ops>>
     ELSE /\ sheet' = SetValue(sheet, empty[p][1].rowIndex, labelColIdx[p] + 1,
                               normalizeLabel_(label[p]))
          /\ ops' = Did(p, "write")
          /\ pc' = [pc EXCEPT ![p] = "invalidate2"]
          /\ UNCHANGED result
  /\ UNCHANGED <<cache, lock, label, rows, empty, labelColIdx, sheet0, atCall, post>>

\* dist lines 130-131: invalidateCache(), return empty.colorId
DistInvalidate(p) ==
  /\ pc[p] = "invalidate2"
  /\ cache' = NoEntry
  /\ ops' = Did(p, "remove")
  /\ pc' = [pc EXCEPT ![p] = "done"]
  /\ result' = [result EXCEPT ![p] = Returned(empty[p][1].colorId)]
  /\ empty' = [empty EXCEPT ![p] = <<>>]
  /\ labelColIdx' = [labelColIdx EXCEPT ![p] = NoColumn]
  /\ UNCHANGED <<sheet, lock, label, rows, sheet0, atCall, post>>

\* the calls compared between the two builds: two invocations, for the
\* labels "#a" and "#b", whose normalized forms are normalized already
DistInvocations == {1, 2}
DistLabels == {<<Marker, "a">>, <<Marker, "b">>}

\* the tables they start from, with no cache entry or with the entry of the
\* rows as they are
DistSheets ==
  {MkSheet(StdHeader, OneEmpty), MkSheet(AltHeader, TwoEmpty),
   MkSheet(StdHeader, << <<1, <<"b">>>>, <<2, <<>>>> >>)}

InitDist ==
  /\ sheet \in DistSheets
  /\ cache \in {NoEntry, Entry(ReadRows(sheet).rows)}
  /\ lock = NoHolder
  /\ pc = [p \in Invocations |-> "idle"]
  /\ label = [p \in Invocations |-> Null]
  /\ rows = [p \in Invocations |-> <<>>]
  /\ empty = [p \in Invocations |-> <<>>]
  /\ labelColIdx = [p \in Invocations |-> NoColumn]
  /\ result = [p \in Invocations |-> Pending]
  /\ sheet0 = sheet
  /\ atCall = [p \in Invocations |-> NotCalled]
  /\ ops = [p \in Invocations |-> NoOps]
  /\ post = NoPost

NextDist ==
  \/ \E p \in DistInvocations, raw \in DistLabels : DistCall(p, raw)
  \/ \E p \in DistInvocations : SheetRead1(p)
  \/ \E p \in DistInvocations : DistCachePut(p)
  \/ \E p \in DistInvocations : DistHeaderRead(p)
  \/ \E p \in DistInvocations : DistWriteLabel(p)
  \/ \E p \in DistInvocations : DistInvalidate(p)
  \/ CacheExpire

\* the compiled resolver, called twice
SpecDist == InitDist /\ [][NextDist]_vars

\* the resolver of the source, called the same way from the same states
NextSrc ==
  \/ \E p \in DistInvocations, raw \in DistLabels : Call(p, raw)
  \/ \E p \in DistInvocations : Step(p)
  \/ CacheExpire

SpecSrc == InitDist /\ [][NextSrc]_vars

\* the type of the state
TypeOK ==
  /\ lock \in Invocations \cup {NoHolder}
  /\ cache.hit \in BOOLEAN
  /\ \A p \in Invocations :
       pc[p] \in {"idle", "read1", "put1", "tryLock", "invalidate1", "get2",
                  "read2", "put2", "header", "setValue", "invalidate2", "release",
                  "done"}
  /\ \A p \in Invocations :
       labelColIdx[p] # NoColumn => pc[p] \in {"setValue", "invalidate2", "release"}

\* ------------------------------------------------- reading the state
\* the 1-based column of the label cells
LabelColumn(sh) == IndexOf(sh.values[1], "label") + 1

\* the 1-based column of the colorId cells
IdColumn(sh) == IndexOf(sh.values[1], "colorId") + 1

\* the positions of the data rows of the sheet that have a colorId
SlotRows(sh) ==
  {k \in 2..Len(sh.values) : sh.values[k][IdColumn(sh)] # Blank}

\* the label cell and the colorId cell of the sheet row at position k
LabelCell(sh, k) == sh.values[k][LabelColumn(sh)]
IdCell(sh, k) == sh.values[k][IdColumn(sh)]

\* the rows whose label cell is empty
EmptySlotRows(sh) == {k \in SlotRows(sh) : Trim(LabelCell(sh, k)) = <<>>}

\* the rows bound to the normalized label n
RowsBoundTo(sh, n) ==
  {k \in SlotRows(sh) : normalizeLabel_(LabelCell(sh, k)) = n}

\* the rows whose label cell holds the string n
RowsHolding(sh, n) ==
  {k \in SlotRows(sh) : Trim(LabelCell(sh, k)) = n}

\* no two rows have the same non-empty normalized label
UniqueLabels(sh) ==
  \A j, k \in SlotRows(sh) :
     (j # k /\ normalizeLabel_(LabelCell(sh, j)) # <<>>)
        => normalizeLabel_(LabelCell(sh, j)) # normalizeLabel_(LabelCell(sh, k))

Normalized(p) == normalizeLabel_(label[p])
Done(p) == pc[p] = "done"
ReturnedSlot(p) == Done(p) /\ result[p].kind = "colorId"

\* ----------------------------------------------------------------- claims

\* C1: once the label cell of a row is non-empty, no step of any invocation
\* changes it.
C1_NoOverwrite ==
  [][\A k \in SlotRows(sheet) :
        Trim(LabelCell(sheet, k)) # <<>> => LabelCell(sheet', k) = LabelCell(sheet, k)]_vars

\* C2: starting from a table without two rows of the same non-empty
\* normalized label, no two rows of the sheet ever have the same non-empty
\* normalized label.
C2_UniqueLabelsKept == UniqueLabels(sheet0) => UniqueLabels(sheet)

\* C3: two invocations that returned slots for labels with different
\* non-empty normalized forms returned different slots.
C3_NoDuplicateBindings ==
  \A p, q \in Invocations :
     (ReturnedSlot(p) /\ ReturnedSlot(q) /\ Normalized(p) # Normalized(q))
        => result[p].colorId # result[q].colorId

\* C4: an invocation called after a slot was returned for a label with the
\* same normalized form writes no cell and returns that slot (a call that
\* fails because it never got the lock is not counted against the claim).
C4_IdempotentResolution ==
  \A p \in Invocations :
     atCall[p].prior # {}
       => /\ ops[p].write = 0
          /\ Done(p) => \/ result[p] = Thrown("LockTimeout")
                        \/ /\ result[p].kind = "colorId"
                           /\ atCall[p].prior = {result[p].colorId}

\* C5: when exactly two invocations ran, both for the same label, from a
\* table with no row bound to it and with an empty row, both returned the same
\* slot, exactly one row holds the normalized label and exactly one cell write
\* was made (an invocation that fails because it never got the lock is not
\* counted against the claim).
C5_DuplicateLabelRace ==
  (/\ Done(1) /\ Done(2)
   /\ \A p \in Invocations : p > 2 => pc[p] = "idle"
   /\ label[1] = label[2]
   /\ RowsBoundTo(sheet0, Normalized(1)) = {}
   /\ RowsHolding(sheet0, Normalized(1)) = {}
   /\ EmptySlotRows(sheet0) # {})
     => /\ \A p \in {1, 2} : result[p].kind = "colorId" \/ result[p] = Thrown("LockTimeout")
        /\ \E p \in {1, 2} : result[p].kind = "colorId"
        /\ \A p, q \in {1, 2} :
              (result[p].kind = "colorId" /\ result[q].kind = "colorId") => result[p] = result[q]
        /\ Cardinality(RowsHolding(sheet, Normalized(1))) = 1
        /\ \A k \in RowsHolding(sheet, Normalized(1)), p \in {1, 2} :
              result[p].kind = "colorId" => IdCell(sheet, k) = result[p].colorId
        /\ ops[1].write + ops[2].write = 1

\* the row with the lowest colorId among the rows of ks
LowestSlotRow(sh, ks) ==
  CHOOSE k \in ks : \A j \in ks : IdCell(sh, k) <= IdCell(sh, j)

\* C6: every cell write of an invocation puts its normalized label into the
\* row that has the lowest colorId among the rows whose label is empty in
\* the sheet, and the invocation then returns that colorId.
C6_LowestEmptySlot ==
  [][\A p \in Invocations :
        (pc[p] = "setValue" /\ pc'[p] = "invalidate2")
          => /\ EmptySlotRows(sheet) # {}
             /\ LET k == LowestSlotRow(sheet, EmptySlotRows(sheet))
                IN /\ sheet' = SetValue(sheet, k, LabelColumn(sheet), Normalized(p))
                   /\ empty[p][1].colorId = IdCell(sheet, k)]_vars

\* C7: an invocation called when every row of the sheet had a label and none
\* matched its label makes no cell write and ends with an error, which is the
\* no-capacity error unless it never got the lock.
C7_CapacityExhaustion ==
  \A p \in Invocations :
     atCall[p].full
       => /\ ops[p].write = 0
          /\ Done(p) => result[p] \in {Thrown("NoCapacity"), Thrown("LockTimeout")}

\* C8: an invocation called when the sheet bound its label to a slot that the
\* cache entry still showed as empty makes no cell write, returns that slot
\* unless it never got the lock, and leaves exactly one row bound to the label.
C8_StaleCacheTolerated ==
  \A p \in Invocations :
     atCall[p].staleFor # {}
       => /\ ops[p].write = 0
          /\ Done(p) => \/ result[p] = Thrown("LockTimeout")
                        \/ /\ result[p].kind = "colorId"
                           /\ atCall[p].staleFor = {result[p].colorId}
                           /\ Cardinality(RowsBoundTo(sheet, Normalized(p))) = 1

\* the labels for which no colour is resolved: null, the empty string, and
\* the strings that are only whitespace around at most one marker
RECURSIVE OnlySpaces(_)
OnlySpaces(s) == s = <<>> \/ (Head(s) = Space /\ OnlySpaces(Tail(s)))

AbsentOrEmpty(raw) ==
  \/ raw = Null
  \/ OnlySpaces(raw)
  \/ \E i \in 1..Len(raw) :
        /\ raw[i] = Marker
        /\ OnlySpaces(SubSeq(raw, 1, i - 1))
        /\ OnlySpaces(SubSeq(raw, i + 1, Len(raw)))

\* C9: a call with an absent or empty label ends at once with undefined and
\* without an error: it takes none of the cache, sheet and lock steps, and
\* the sheet, the cache entry and the lock are as they were.
C9_AbsentLabelNoEffect ==
  [][\A p \in Invocations :
        (pc[p] = "idle" /\ pc'[p] # "idle" /\ AbsentOrEmpty(label'[p]))
          => /\ pc'[p] = "done"
             /\ result'[p] = Undefined
             /\ ops'[p] = NoOps
             /\ sheet' = sheet /\ cache' = cache /\ lock' = lock]_vars

\* a call with a label of whitespace around one marker has returned undefined
C9_Witness ==
  /\ Done(1)
  /\ label[1] = <<Space, Marker, Space>>
  /\ result[1] = Undefined
  /\ cache.hit

\* C10: an invocation that fails with the lock-timeout error has removed no
\* cache entry and written no cell, and neither the failed attempt nor its
\* release in the finally block changes who holds the lock.
C10_LockTimeout ==
  /\ [](\A p \in Invocations :
          result[p] = Thrown("LockTimeout")
            => ops[p].remove = 0 /\ ops[p].write = 0 /\ lock # p)
  /\ [][\A p \in Invocations :
          /\ (pc[p] = "tryLock" /\ pc'[p] # "tryLock" /\ lock # NoHolder)
               => (result'[p] = Thrown("LockTimeout") /\ lock' = lock /\ pc'[p] = "release")
          /\ (pc[p] = "release" /\ pc'[p] = "done" /\ result[p] = Thrown("LockTimeout"))
               => (lock' = lock /\ cache' = cache /\ sheet' = sheet)]_vars

\* an invocation has failed with the lock-timeout error and is finished,
\* and the invocation that held the lock still holds it
C10_Witness ==
  \E p, q \in Invocations :
     /\ Done(p) /\ result[p] = Thrown("LockTimeout")
     /\ lock = q /\ q # p /\ pc[q] \in {"header", "setValue", "invalidate2"}

\* ------------------------------------------------ reading the doPost state
\* doPost has made the external call e; how often; and every call of b came
\* after a call of a
Called(e) == \E i \in 1..Len(post.log) : post.log[i] = e
Times(e) == Cardinality({i \in 1..Len(post.log) : post.log[i] = e})
Before(a, b) ==
  \A j \in 1..Len(post.log) :
     post.log[j] = b => \E i \in 1..(j - 1) : post.log[i] = a

\* C11: doPost calls the resolver at most once, only for a request whose
\* secret matched and after the parser returned an event, with the label of
\* that event; it calls the calendar insertion only after the resolver
\* returned, and with exactly the colorId the resolver returned.
C11_RequestOrdering ==
  /\ Times("resolve") <= 1
  /\ Called("resolve") <=> pc[1] # "idle"
  /\ Called("resolve")
       => /\ post.req.valid
          /\ post.expected # ""
          /\ post.req.secret = post.expected
          /\ Before("parse", "resolve")
          /\ post.parsed \in ParsedLabels
          /\ label[1] = post.parsed
  /\ Called("insert")
       => /\ Before("resolve", "insert")
          /\ pc[1] = "done"
          /\ result[1].kind \in {"colorId", "undefined"}
          /\ post.colorIdArg = result[1]
  /\ ~Called("insert") => post.colorIdArg = NotPassed

\* the resolver allocated slot 1 for the request and the event was inserted
\* with it
C11_Witness ==
  /\ Called("insert")
  /\ ops[1].write = 1
  /\ post.colorIdArg = Returned(1)
  /\ post.response = Success(Returned(1), TRUE)

\* C12: when the resolver has thrown, doPost makes no calendar insertion,
\* holds and passes no colorId, and its response is the failure response
\* carrying the resolver's error.
C12_NoFallbackColour ==
  (pc[1] = "done" /\ result[1].kind = "error")
    => /\ ~Called("insert")
       /\ post.colorId = NotPassed
       /\ post.colorIdArg = NotPassed
       /\ post.pc \in {"resolving", "responded"}
       /\ post.pc = "responded" => post.response = Failure(result[1].err)

\* the resolver found no empty slot and doPost answered with the failure
C12_Witness ==
  /\ post.pc = "responded"
  /\ result[1] = Thrown("NoCapacity")
  /\ post.response = Failure("NoCapacity")
  /\ post.response.ok = FALSE

\* invocation p is between a successful tryLock (line 221) and its
\* releaseLock (line 248)
InCritical(p) ==
  \/ pc[p] \in {"invalidate1", "get2", "read2", "put2", "header", "setValue",
                "invalidate2"}
  \/ pc[p] = "release" /\ result[p] # Thrown("LockTimeout")

\* C13: at most one invocation is between its successful lock acquisition
\* and its lock release, and the lock records that invocation as its holder.
C13_MutualExclusion ==
  /\ \A p, q \in Invocations : (InCritical(p) /\ InCritical(q)) => p = q
  /\ \A p \in Invocations : InCritical(p) => lock = p

\* one invocation is about to write under the lock while another waits for
\* the lock and a third has already written and released it
C13_Witness ==
  \E p, q, r \in Invocations :
     /\ pc[p] = "header" /\ lock = p
     /\ pc[q] = "tryLock"
     /\ pc[r] = "done" /\ ops[r].write = 1

\* C14: the rows on which the holder of the lock bases its match check and
\* its choice of the empty slot (lines 230-234) are the rows of the sheet as
\* it is at that moment, whether loadColorsRows_ took them from the sheet or
\* from the cache.
C14_FreshReadUnderLock ==
  [][\A p \in Invocations :
        /\ (pc[p] = "get2" /\ pc'[p] # "get2" /\ cache.hit)
             => cache.rows = StoreRows(sheet)
        /\ (pc[p] = "put2" /\ pc'[p] # "put2")
             => rows[p] = StoreRows(sheet)]_vars

\* C15: no finished invocation holds the lock, and an invocation that
\* acquired the lock finishes, whatever it returns or throws, only by the
\* step that releases the lock.
C15_LockAlwaysReleased ==
  /\ [](\A p \in Invocations : pc[p] = "done" => lock # p)
  /\ [][\A p \in Invocations :
          (InCritical(p) /\ pc'[p] = "done")
            => (pc[p] = "release" /\ lock = p /\ lock' = NoHolder)]_vars

\* an invocation that held the lock found the label column missing before
\* the write and has finished; the lock is free
C15_Witness ==
  \E p \in Invocations :
     /\ pc[p] = "done"
     /\ result[p] = Thrown("NoLabelColumn")
     /\ ops[p].tryLock = 1 /\ ops[p].write = 0
     /\ lock = NoHolder

\* C16: whenever an invocation has returned a slot for its label, the row of
\* the sheet with that colorId has a label whose normalized form is the
\* normalized form of the invocation's label, at the return and ever after.
C16_ReturnedBindingsValid ==
  \A p \in Invocations :
     ReturnedSlot(p)
       => \E k \in SlotRows(sheet) :
             /\ IdCell(sheet, k) = result[p].colorId
             /\ normalizeLabel_(LabelCell(sheet, k)) = Normalized(p)

\* C17: once an invocation has written its label to a row and returned the
\* row's slot, the cache entry is absent or shows that slot with the label
\* that was written.
C17_WriteVisibleThroughCache ==
  \A p \in Invocations :
     (ReturnedSlot(p) /\ ops[p].write = 1)
       => \/ ~cache.hit
          \/ \E k \in 1..Len(cache.rows) :
                /\ cache.rows[k].colorId = result[p].colorId
                /\ cache.rows[k].label = Normalized(p)

\* C18: normalizing the normalized label of a call changes nothing, and the
\* value an invocation wrote to a label cell normalizes to the key under
\* which it was written.
C18_NormalizeIdempotent ==
  \A p \in Invocations :
     /\ (pc[p] # "idle" /\ label[p] # Null)
          => normalizeLabel_(normalizeLabel_(label[p])) = normalizeLabel_(label[p])
     /\ (ReturnedSlot(p) /\ ops[p].write = 1)
          => \E k \in SlotRows(sheet) :
                /\ IdCell(sheet, k) = result[p].colorId
                /\ normalizeLabel_(LabelCell(sheet, k)) = Normalized(p)

\* C19: every step that changes the sheet sets the label cell of one row
\* whose label is empty in the sheet to a non-empty value, and changes nothing
\* else: no colorId, no display attribute, no header, no row added, removed
\* or moved.  Hence no row is written twice.
C19_OneWritePerRow ==
  [][sheet' # sheet
       => \E k \in EmptySlotRows(sheet) :
             /\ LabelCell(sheet', k) # <<>>
             /\ sheet' = SetValue(sheet, k, LabelColumn(sheet), LabelCell(sheet', k))]_vars

\* the errors of a call that got no lock, found no empty slot, or could not
\* read a valid table
ReadOrLockErrors ==
  {Thrown(e) : e \in {"LockTimeout", "NoCapacity", "StoreUnavailable",
                      "SheetNotFound", "NoDataRows", "BadHeader"}}

\* C20: an invocation asks for the lock at most once and writes at most one
\* cell, and an invocation that has ended with the lock timeout, the
\* no-capacity error or a failed or invalid read of the table has written
\* no cell.
C20_NoInternalRetry ==
  \A p \in Invocations :
     /\ ops[p].tryLock <= 1
     /\ ops[p].write <= 1
     /\ (pc[p] = "done" /\ result[p] \in ReadOrLockErrors) => ops[p].write = 0

\* one invocation has ended with a store failure under the lock and another
\* with the lock timeout, each after a single lock attempt and without a write
C20_Witness ==
  \E p, q \in Invocations :
     /\ pc[p] = "done" /\ result[p] = Thrown("StoreUnavailable")
     /\ ops[p] = [remove |-> 1, tryLock |-> 1, write |-> 0]
     /\ pc[q] = "done" /\ result[q] = Thrown("LockTimeout")
     /\ ops[q] = [remove |-> 0, tryLock |-> 1, write |-> 0]

\* the rows an invocation first loads, when the step it is about to take
\* completes that load: the cache entry at its call, or the rows it read
\* from the sheet and is about to put
FirstRows(p) ==
  IF pc[p] = "idle" THEN cache.rows ELSE rows[p]

FirstLoadEnds(p) ==
  \/ pc[p] = "idle" /\ pc'[p] # "idle" /\ ~SkipsResolution(label'[p]) /\ cache.hit
  \/ pc[p] = "put1" /\ pc'[p] # "put1"

\* C21: an invocation whose normalized label matches a row of the rows it
\* first loads finishes in the step that completes the load, with that row's
\* colorId; it has made no lock attempt, no cache removal and no cell write,
\* and the step changes neither the lock nor the sheet, whoever holds the lock.
C21_LockFreeFastPath ==
  [][\A p \in Invocations :
        (FirstLoadEnds(p) /\ FindLabel(FirstRows(p), normalizeLabel_(label'[p])) # <<>>)
          => /\ pc'[p] = "done"
             /\ result'[p] = Returned(FindLabel(FirstRows(p), normalizeLabel_(label'[p]))[1].colorId)
             /\ ops'[p] = NoOps
             /\ lock' = lock
             /\ sheet' = sheet]_vars

\* an invocation has returned a slot on the fast path while another
\* invocation holds the lock and is about to write
C21_Witness ==
  \E p, q \in Invocations :
     /\ pc[p] = "done" /\ result[p].kind = "colorId" /\ ops[p] = NoOps
     /\ q # p /\ lock = q /\ pc[q] = "header"

\* no invocation is running: each is not yet called, or has finished with a
\* slot, with no slot or with an error
Quiescent ==
  \A p \in Invocations :
     \/ pc[p] = "idle"
     \/ pc[p] = "done" /\ result[p].kind \in {"colorId", "undefined", "error"}

\* C22: under weak fairness of every invocation's steps, the invocations
\* that were called all finish, with a slot, with no slot or with an error
\* (again and again no invocation is running, so none stays at tryLock or
\* anywhere else forever), and whenever no invocation is running the lock is
\* free.
C22_NoDeadlock ==
  /\ []<>Quiescent
  /\ [](Quiescent => lock = NoHolder)

\* every invocation that is called has finished, one of them after a cell
\* write and one of them with the lock timeout, and the lock is free
C22_Witness ==
  /\ \A p \in FairInvocations : pc[p] = "done"
  /\ \E p \in FairInvocations : ops[p].write = 1
  /\ \E p \in FairInvocations : result[p] = Thrown("LockTimeout")
  /\ lock = NoHolder

\* the four columns loadColorsRows_ looks up by name
RequiredColumns == {"colorId", "label", "background", "foreground"}

\* the sheet is missing, or its header lacks one of the four columns
SchemaBroken(sh) ==
  \/ ~sh.exists
  \/ \E name \in RequiredColumns : IndexOf(sh.values[1], name) < 0

SchemaErrors == {Thrown("SheetNotFound"), Thrown("BadHeader"), Thrown("NoDataRows")}

\* C23: a load that misses the cache and finds the sheet missing or one of
\* the four columns absent from the header throws: the step puts nothing
\* into the cache, writes no cell and sends the invocation to its end (through
\* the finally block when it holds the lock) with the error, which is what the
\* invocation ends with; a sheet with the four columns in any position and a
\* data row is loaded.
C23_SchemaValidation ==
  /\ [][\A p \in Invocations :
          (pc[p] \in {"read1", "read2"} /\ pc'[p] # pc[p])
            => IF SchemaBroken(sheet)
               THEN /\ result'[p] \in SchemaErrors
                    /\ pc'[p] = (IF pc[p] = "read1" THEN "done" ELSE "release")
                    /\ cache' = cache
                    /\ sheet' = sheet
               ELSE Len(sheet.values) >= 2
                      => (pc'[p] \in {"put1", "put2"} /\ result'[p] = Pending)]_vars
  /\ [](\A p \in Invocations :
          (pc[p] \in {"release", "done"} /\ result[p] \in SchemaErrors)
            => ops[p].write = 0)
  /\ [][\A p \in Invocations :
          (pc[p] = "release" /\ result[p] \in SchemaErrors)
            => (result'[p] = result[p] /\ cache' = cache /\ sheet' = sheet)]_vars

\* an invocation that missed on a cached snapshot re-read the sheet under the
\* lock, found a column missing and has ended with the header error; nothing
\* is in the cache and the lock is free
C23_Witness ==
  /\ pc[1] = "done"
  /\ result[1] = Thrown("BadHeader")
  /\ ops[1] = [remove |-> 1, tryLock |-> 1, write |-> 0]
  /\ IndexOf(sheet.values[1], "background") < 0
  /\ ~cache.hit
  /\ lock = NoHolder

\* the secret of the request is not the configured shared secret
SecretDiffers == post.req.secret # post.expected

\* C24: a request whose secret differs from the configured shared secret
\* makes doPost call neither the parser nor the resolver nor the calendar
\* insertion: invocation 1 is never called and has touched neither cache,
\* lock nor sheet, the steps of the request change none of them, and the
\* response is a failure, the Unauthorized one when the body is valid and the
\* shared secret is configured.
C24_UnauthorizedNoEffect ==
  /\ [](SecretDiffers
          => /\ post.log = <<>>
             /\ pc[1] = "idle" /\ ops[1] = NoOps /\ result[1] = Pending
             /\ post.pc \in {"start", "responded"}
             /\ post.pc = "responded"
                  => /\ post.response.ok = FALSE
                     /\ (post.req.valid /\ post.expected # "")
                          => post.response = Unauthorized)
  /\ [][(SecretDiffers /\ post' # post)
          => (sheet' = sheet /\ cache' = cache /\ lock' = lock)]_vars

\* a well-formed request with the wrong secret has got the Unauthorized
\* response; the sheet has an empty row and is as it was
C24_Witness ==
  /\ post.pc = "responded"
  /\ post.req.valid /\ post.req.secret = "x" /\ post.expected = "s"
  /\ post.response = Unauthorized
  /\ sheet = sheet0 /\ sheet = MkSheet(StdHeader, TwoEmpty)
  /\ pc[1] = "idle"

\* C26: a request with dryRun set never calls the calendar insertion and
\* passes no colorId to it; once the parser has returned its event, doPost
\* calls the resolver with the event's label as for any request (the
\* resolver's steps do not read the flag), and the response carries what the
\* resolver returned, or its error.
C26_DryRunOnlySkipsInsert ==
  post.req.dryRun
    => /\ ~Called("insert")
       /\ post.colorIdArg = NotPassed
       /\ post.pc # "insert"
       /\ post.pc \in {"resolving", "responded"} /\ post.parsed # NoParsed
            => (Called("resolve") /\ label[1] = post.parsed)
       /\ (post.pc = "responded" /\ Called("resolve"))
            => /\ pc[1] = "done"
               /\ post.response = IF result[1].kind = "error"
                                  THEN Failure(result[1].err)
                                  ELSE Success(result[1], FALSE)

\* a dry run for a new label made the allocating write, and its response
\* carries the allocated slot although no event was created
C26_Witness ==
  /\ post.req.dryRun
  /\ post.pc = "responded"
  /\ ops[1].write = 1
  /\ post.response = Success(Returned(1), FALSE)
  /\ sheet # sheet0

\* no row of rs has a blank colorId
NoBlankId(rs) == \A k \in 1..Len(rs) : rs[k].colorId # Blank

\* the sheet can be loaded, every row with a colorId has a label, and none
\* of them is bound to the normalized label n
OnlyBlankIdRowsFree(sh, n) ==
  /\ ~SchemaBroken(sh)
  /\ Len(sh.values) >= 2
  /\ EmptySlotRows(sh) = {}
  /\ RowsBoundTo(sh, n) = {}

\* C27: the rows an invocation loads and the rows of the cache entry never
\* include a row whose colorId is blank; no invocation returns a blank
\* colorId or chooses such a row as its empty slot; no step changes a cell of
\* such a row; and a call for a new label on a sheet whose only rows with an
\* empty label have a blank colorId ends with the no-capacity error.
C27_BlankSlotIdsSkipped ==
  /\ [](/\ NoBlankId(cache.rows)
        /\ \A p \in Invocations :
              /\ NoBlankId(rows[p])
              /\ empty[p] # <<>> => empty[p][1].colorId # Blank
              /\ result[p].kind = "colorId" => result[p].colorId # Blank
              /\ (pc[p] = "done" /\ ~SkipsResolution(label[p])
                    /\ OnlyBlankIdRowsFree(sheet0, Normalized(p)))
                   => (result[p] = Thrown("NoCapacity") /\ sheet = sheet0))
  /\ [][~SchemaBroken(sheet)
          => \A k \in 2..Len(sheet.values) :
                IdCell(sheet, k) = Blank => sheet'.values[k] = sheet.values[k]]_vars

\* a call for a new label has ended with the no-capacity error on a sheet
\* whose only row with an empty label has a blank colorId
C27_Witness ==
  /\ pc[1] = "done"
  /\ label[1] = <<Marker, "b">>
  /\ result[1] = Thrown("NoCapacity")
  /\ sheet = MkSheet(AltHeader, << <<1, <<"a">>>>, <<Blank, <<>>>> >>)

\* every call of the two compared has finished
BothFinished == \A p \in DistInvocations : Done(p)

\* what every outcome of the source's resolver for those calls shows (with
\* it C25_DistRefinesSrc is an invariant of SpecSrc): the labels the table started with are where they
\* were, and each returned slot is, in the final table, the slot of the row
\* that holds the caller's normalized label
ProducibleBySrc ==
  /\ \A k \in SlotRows(sheet0) :
        Trim(LabelCell(sheet0, k)) # <<>> => LabelCell(sheet, k) = LabelCell(sheet0, k)
  /\ \A p \in DistInvocations :
        result[p].kind = "colorId"
          => \E k \in RowsHolding(sheet, Normalized(p)) :
                IdCell(sheet, k) = result[p].colorId

\* C25: every combination of returned slots and final table that two calls
\* of the compiled resolver (dist/index.js, unnamed/part_000) produce is one
\* the source's resolver produces from the same table, cache and calls: when
\* both calls have finished, the outcome is within what the source allows.
C25_DistRefinesSrc == BothFinished => ProducibleBySrc

====
